---- MODULE Spec2Model ----
(***************************************************************************)
(* Online intent inference: the three belief updaters of util/predictors.py *)
(* (BayesianPredictor, MaxEntPredictor, CRFPredictor).                      *)
(*                                                                          *)
(* Reals are fixed-point integers: the real r is the integer r * One, with  *)
(* One = 30 720 000 (a resolution of about 3.3e-8).  np.exp and np.log are  *)
(* computed by series on that grid, to within a few units of the last       *)
(* place, so that log/exp round trips are computed, not assumed.            *)
(***************************************************************************)
EXTENDS Integers, Sequences, FiniteSets, TLC

(***************************************************************************)
(* The state: one predictor, and what its caller has seen of it.            *)
(***************************************************************************)
VARIABLES
  cfg,          \* the attributes __init__ stores and no method assigns
  log_post,     \* self.log_post
  prev_action, \* self.prev_action: <<>> is None (CRFPredictor alone)
  pc,           \* the update in flight: where it is and its local post
  ret,          \* the value the last call returned (<<>>: none)
  lastOp,       \* the last call: "init", "update", "IndexError", "get_prob", "reset"
  call,         \* the arguments of the last call of update
  prior,        \* self.log_post and self.prev_action when that call began
  fresh,        \* a twin built by __init__ at the last reset and fed the same calls
  steps,        \* the calls of update so far
  seen,         \* the actions the updates that returned observed, oldest first
  used          \* the calls of update so far that passed overrides / an index out of range

vars == <<cfg, log_post, prev_action, pc, ret, lastOp, call, prior, fresh, steps, seen, used>>

(***************************************************************************)
(* Fixed-point arithmetic (numpy float arithmetic on the grid 1/One).       *)
(***************************************************************************)
Half == 2 ^ 12
Chunk == 75 * 100
One == Chunk * Half

Abs(x) == IF x < 0 THEN -x ELSE x

\* a * b / One for 0 <= a < One + One \div 8, 0 <= b <= One + One \div 8,
\* by halves so that no intermediate product exceeds 2^31.
MulFrac(a, b) ==
  LET a1 == a \div Half
      a0 == a % Half
      b1 == b \div Half
      b0 == b % Half
      hi == a1 * b1
      mid == a1 * b0 + a0 * b1 + (a0 * b0) \div Half
  IN  (hi \div Chunk) * Half + ((hi % Chunk) * Half + mid + Chunk \div 2) \div Chunk

\* x * f / One for any integer x (|x| < 2^30) and 0 <= f <= One.
Mul(x, f) ==
  LET m == Abs(x)
      r == (m \div One) * f + MulFrac(m % One, f)
  IN  IF x < 0 THEN -r ELSE r

\* The mixed-radix digits of One: 16*16*16*4*15*5*5*5 = One.
Radix == <<16, 16, 16, 4, 15, 5, 5, 5>>

\* floor(r * One / b) for 0 <= r < b, b < 2^27, by long division.
RECURSIVE LongDiv(_, _, _, _)
LongDiv(q, r, b, i) ==
  IF i > Len(Radix)
    THEN IF 2 * r >= b THEN q + 1 ELSE q
    ELSE LongDiv(q * Radix[i] + (r * Radix[i]) \div b, (r * Radix[i]) % b, b, i + 1)

\* a / b on the grid, for a >= 0, 0 < b < 2^27.
Div(a, b) == (a \div b) * One + LongDiv(0, a % b, b, 1)

\* round(e^-q * One), q = 0 .. 18
EInv == <<30720000, 11301256, 4157500, 1529459, 562656, 206990, 76147, 28013,
          10305, 3791, 1395, 513, 189, 69, 26, 9, 3, 1, 0>>

\* e^-t for 0 <= t < One: Horner form of the Taylor series, 12 terms.
RECURSIVE ExpHorner(_, _)
ExpHorner(t, n) ==
  IF n > 12 THEN One ELSE One - MulFrac(t, ExpHorner(t, n + 1)) \div n

\* np.exp(y) for y <= 0.
Exp(y) ==
  LET q == (-y) \div One
      t == (-y) % One
  IN  IF q >= Len(EInv) THEN 0 ELSE MulFrac(EInv[q + 1], ExpHorner(t, 1))

\* The number of doublings that bring x into (One/2, One].
RECURSIVE Doublings(_)
Doublings(x) == IF 2 * x > One THEN 0 ELSE 1 + Doublings(2 * x)

\* k * ln 2 on the grid (ln 2 * One = 21293481.387).
KLn2(k) == k * 21293481 + (k * 387) \div 1000

\* atanh(z)/z = 1 + z^2/3 + z^4/5 + ..., 9 terms, z2 = z^2 <= 1/9.
RECURSIVE AtanhHorner(_, _)
AtanhHorner(z2, n) ==
  IF n > 8 THEN 0 ELSE One \div (2 * n + 1) + MulFrac(z2, AtanhHorner(z2, n + 1))

\* ln(x) for 0 < x <= One: ln(m) = -2 atanh((1 - m) / (1 + m)), x = m / 2^k.
Ln(x) ==
  LET k == Doublings(x)
      m == x * (2 ^ k)
      z == Div(One - m, One + m)
      s == AtanhHorner(MulFrac(z, z), 0)
  IN  -(2 * MulFrac(z, s)) - KLn2(k)

\* np.log(p + floor) for a floor below the grid's resolution (1e-12, 1e-8):
\* the floor decides the result only when p is 0 on the grid.
LogFloored(p, lnFloor) == IF p <= 0 THEN lnFloor ELSE Ln(IF p > One THEN One ELSE p)

LnFloor12 == -848824969
LnFloor8 == -565883312


(***************************************************************************)
(* Vectors (numpy arrays) are sequences; index i of the code is i + 1.      *)
(***************************************************************************)
\* The array <<F(1), ..., F(n)>>, computed once.
RECURSIVE Vec(_, _)
Vec(F(_), n) == IF n = 0 THEN <<>> ELSE Append(Vec(F, n - 1), F(n))

RECURSIVE SumTo(_, _)
SumTo(v, n) == IF n = 0 THEN 0 ELSE v[n] + SumTo(v, n - 1)
Sum(v) == SumTo(v, Len(v))

RECURSIVE MaxTo(_, _)
MaxTo(v, n) == IF n = 1 THEN v[1] ELSE LET m == MaxTo(v, n - 1) IN IF v[n] > m THEN v[n] ELSE m
Max(v) == MaxTo(v, Len(v))

\* exp(v - max(v)) / sum(exp(v - max(v)))
Softmax(v) ==
  LET m == Max(v)
      e == Vec(LAMBDA i : Exp(v[i] - m), Len(v))
      s == Sum(e)
  IN  Vec(LAMBDA i : Div(e[i], s), Len(v))

Uniform(N) == Div(One, N * One)

\* probs[user_action]: a numpy index in [-A, A) selects, any other raises IndexError.
IndexOK(user_action, A) == user_action >= -A /\ user_action < A
PyIndex(user_action, A) == IF user_action < 0 THEN user_action + A + 1 ELSE user_action + 1

(***************************************************************************)
(* Policies: q_table[state][action], the values get_q_value returns.        *)
(***************************************************************************)
States == {1, 2}
Goal0 == [s \in States |-> <<One, 0>>]
Goal1 == [s \in States |-> <<0, One>>]
Flat == [s \in States |-> <<One \div 2, One \div 2>>]
Turn == [s \in States |-> IF s = 1 THEN <<One, 0>> ELSE <<0, One>>]
Flat3 == [s \in States |-> <<0, 0, 0>>]
Goal3 == [s \in States |-> <<One, 0, One \div 2>>]
Sharp0 == [s \in States |-> <<8 * One, 0>>]
Sharp1 == [s \in States |-> <<0, 8 * One>>]

(***************************************************************************)
(* Defaults of the constructors and of update's keyword arguments.          *)
(***************************************************************************)
DefaultTau == 24576000          \* 0.8
BayesEps == 30720               \* 1e-3
MaxEntEps == 307200             \* 1e-2
CRFEps == 307200                \* 0.01
BayesAlpha == 1536000           \* 0.05
BayesPSwitch == 614400          \* 0.02
BayesBeta == 30720000           \* 1
MaxEntAlpha == 15360000         \* 0.5
CRFPairwise == 9216000          \* 0.3
CRFAlpha == 1536000             \* 0.05
CRFPSwitch == 614400            \* 0.02
CRFBeta == 30720000             \* 1.0

\* self.log_post after __init__ (and after CRFPredictor.reset): log(1/N + 1e-12)
UniformLogPost(N) ==
  LET l == LogFloored(Uniform(N), LnFloor12)
  IN  Vec(LAMBDA i : l, N)

(***************************************************************************)
(* Likelihoods.                                                             *)
(***************************************************************************)
\* BayesianPredictor.log_likelihood / MaxEntPredictor.log_likelihood: the two
\* differ in the additive floor alone (1e-8 and 1e-12).
SoftmaxLogLikelihood(c, state, user_action, policy, lnFloor) ==
  LET Q == policy[state]
      logits == Vec(LAMBDA a : Div(Q[a], c.tau), c.action_space_size)
      probs == Softmax(logits)
  IN  LogFloored(probs[PyIndex(user_action, c.action_space_size)], lnFloor)

BayesLogLikelihood(c, state, user_action, policy) ==
  SoftmaxLogLikelihood(c, state, user_action, policy, LnFloor8)

MaxEntLogLikelihood(c, state, user_action, policy) ==
  SoftmaxLogLikelihood(c, state, user_action, policy, LnFloor12)

\* CRFPredictor.unary_fn and pairwise_fn; prev is <<>> (None) or <<action>>.
unary_fn(c, policy, state, a) == Div(policy[state][a + 1], c.tau)
PairwiseNone(c, prev_a, a) == 0
pairwise_fn(c, prev_a, a) == IF prev_a = a THEN c.pairwise_weight ELSE 0

CRFLogits(c, prev, state, policy) ==
  Vec(LAMBDA i : unary_fn(c, policy, state, i - 1)
       + (IF prev # <<>> THEN pairwise_fn(c, prev[1], i - 1) ELSE 0), c.action_space_size)

CRFLogLikelihood(c, prev, state, user_action, policy) ==
  LogFloored(Softmax(CRFLogits(c, prev, state, policy))[PyIndex(user_action, c.action_space_size)],
             LnFloor12)

(***************************************************************************)
(* The steps of update.                                                     *)
(***************************************************************************)
\* Plain Bayesian accumulation, log_post + log_likes, in place of the blend.
ForgetAdditive(lp, log_likes, alpha) == Vec(LAMBDA i : lp[i] + log_likes[i], Len(lp))

\* (1 - alpha) * log_post + alpha * log_likes
Forget(lp, log_likes, alpha) ==
  Vec(LAMBDA i : Mul(lp[i], One - alpha) + Mul(log_likes[i], alpha), Len(lp))

\* The goal-switch step left out.
GoalSwitchSkipped(post, p_switch) == post

\* if p_switch > 0: post = (1 - p_switch) * post + p_switch * (1.0 / N)
GoalSwitch(post, p_switch) ==
  IF p_switch > 0
    THEN LET u == Mul(Uniform(Len(post)), p_switch)
         IN  Vec(LAMBDA i : Mul(post[i], One - p_switch) + u, Len(post))
    ELSE post

\* p ** (1.0 / beta)
Pow(p, beta) == IF p <= 0 THEN 0 ELSE Exp(-Div(-Ln(p), beta))

\* if beta != 1.0: post = post ** (1.0 / beta); post /= np.sum(post)
Temper(post, beta) ==
  IF beta # One
    THEN LET w == Vec(LAMBDA i : Pow(post[i], beta), Len(post))
             s == Sum(w)
         IN  Vec(LAMBDA i : Div(w[i], s), Len(post))
    ELSE post

\* Smoothing that scales the belief and leaves the uniform share out.
SmoothNoShare(post, eps) == Vec(LAMBDA i : Mul(post[i], One - eps), Len(post))

\* Smoothing left out.
SmoothSkipped(post, eps) == post

\* post = (1 - eps) * post + eps * (1.0 / N)
Smooth(post, eps) ==
  LET u == Mul(Uniform(Len(post)), eps)
  IN  Vec(LAMBDA i : Mul(post[i], One - eps) + u, Len(post))

\* np.log(post + 1e-12)
StoreLog(post) == Vec(LAMBDA i : LogFloored(post[i], LnFloor12), Len(post))

\* Steps 3 to 6 of BayesianPredictor.update and CRFPredictor.update, from the
\* log-belief that step 2 stored.
Posterior(lp, p_switch, beta, eps) ==
  Smooth(Temper(GoalSwitch(Softmax(lp), p_switch), beta), eps)

BayesLogLikes(c, state, user_action) ==
  Vec(LAMBDA i : BayesLogLikelihood(c, state, user_action, c.policies[i]), c.N)

\* MaxEntPredictor.update: the value returned.
MaxEntPosterior(c, lp, state, user_action, alpha) ==
  LET log_likes == Vec(LAMBDA i : MaxEntLogLikelihood(c, state, user_action, c.policies[i]), c.N)
      likes == Softmax(log_likes)
      post == Softmax(lp)
      mixed == Vec(LAMBDA i : Mul(post[i], One - alpha) + Mul(likes[i], alpha), c.N)
  IN  Smooth(mixed, c.eps)

CRFLogLikes(c, prev, state, user_action) ==
  Vec(LAMBDA i : CRFLogLikelihood(c, prev, state, user_action, c.policies[i]), c.N)

\* get_prob
GetProbValue(lp) == Softmax(lp)

(***************************************************************************)
(* The instances checked: the constructor calls, with their stored          *)
(* attributes.  pairwise_weight, alpha, p_switch and beta are attributes    *)
(* of CRFPredictor alone.                                                   *)
(***************************************************************************)
Bayesian(policies, A, eps) ==
  [kind |-> "Bayesian", policies |-> policies, N |-> Len(policies),
   action_space_size |-> A, eps |-> eps, tau |-> DefaultTau]

MaxEnt(policies, A, eps) ==
  [kind |-> "MaxEnt", policies |-> policies, N |-> Len(policies),
   action_space_size |-> A, eps |-> eps, tau |-> DefaultTau]

CRF(policies, A, pairwise_weight, p_switch, beta) ==
  [kind |-> "CRF", policies |-> policies, N |-> Len(policies),
   action_space_size |-> A, eps |-> CRFEps, tau |-> DefaultTau,
   pairwise_weight |-> pairwise_weight, alpha |-> CRFAlpha,
   p_switch |-> p_switch, beta |-> beta]

Scenario == Bayesian(<<Goal0, Goal1>>, 2, BayesEps)

Instances ==
  { Scenario,
    Bayesian(<<Goal0>>, 2, BayesEps),
    Bayesian(<<Sharp0, Flat, Turn>>, 2, One \div 20),
    MaxEnt(<<Goal0, Goal1>>, 2, MaxEntEps),
    MaxEnt(<<Turn>>, 2, MaxEntEps),
    MaxEnt(<<Sharp0, Sharp1, Flat>>, 2, MaxEntEps),
    CRF(<<Goal0, Goal1>>, 2, CRFPairwise, CRFPSwitch, CRFBeta),
    CRF(<<Flat3, Goal3>>, 3, CRFPairwise, CRFPSwitch, CRFBeta),
    CRF(<<Flat, Sharp1, Turn>>, 2, One, 0, 2 * One),
    CRF(<<Flat>>, 2, CRFPairwise, CRFPSwitch, CRFBeta) }

\* The keyword arguments a call of update may pass; a field left out is not passed.
NoOverride == [none |-> TRUE]
BayesOverrides ==
  { NoOverride,
    [alpha |-> 0],
    [alpha |-> One \div 2, beta |-> 2 * One],
    [alpha |-> One, p_switch |-> 0],
    [alpha |-> One, p_switch |-> One \div 4, beta |-> One \div 2] }
MaxEntOverrides == { NoOverride, [alpha |-> One], [alpha |-> One \div 10] }

\* Overrides that persist: a field left out takes the last call's value.
BayesArgsSticky(ov) ==
  LET d == IF steps > 0 THEN call.args
           ELSE [alpha |-> BayesAlpha, p_switch |-> BayesPSwitch, beta |-> BayesBeta]
  IN  [alpha |-> IF "alpha" \in DOMAIN ov THEN ov.alpha ELSE d.alpha,
       p_switch |-> IF "p_switch" \in DOMAIN ov THEN ov.p_switch ELSE d.p_switch,
       beta |-> IF "beta" \in DOMAIN ov THEN ov.beta ELSE d.beta]

\* update(self, state, user_action, alpha=0.05, p_switch=0.02, beta=1)
BayesArgs(ov) ==
  [alpha |-> IF "alpha" \in DOMAIN ov THEN ov.alpha ELSE BayesAlpha,
   p_switch |-> IF "p_switch" \in DOMAIN ov THEN ov.p_switch ELSE BayesPSwitch,
   beta |-> IF "beta" \in DOMAIN ov THEN ov.beta ELSE BayesBeta]

\* update(self, state, user_action, alpha=0.5)
MaxEntArgs(ov) ==
  [alpha |-> IF "alpha" \in DOMAIN ov THEN ov.alpha ELSE MaxEntAlpha,
   p_switch |-> 0, beta |-> One]

\* CRFPredictor.update takes no keyword arguments: it reads self.alpha, ...
CRFArgs(c) == [alpha |-> c.alpha, p_switch |-> c.p_switch, beta |-> c.beta]

MaxSteps == 2
MaxSpecial == 1
ScenarioSteps == 5
ConcSteps == 3


\* No update in flight; after line 51 / 207 ("stored"); after line 227 ("posted").
Idle == [at |-> "idle", post |-> <<>>]

NoCall == [state |-> 0, user_action |-> 0, args |-> [alpha |-> 0, p_switch |-> 0, beta |-> 0],
           overridden |-> FALSE]
NoTwin == [active |-> FALSE, log_post |-> <<>>, prev_action |-> <<>>]

\* __init__ of the three classes
InitWith(instances) ==
  /\ cfg \in instances
  /\ log_post = UniformLogPost(cfg.N)
  /\ prev_action = <<>>
  /\ pc = Idle
  /\ ret = <<>>
  /\ lastOp = "init"
  /\ call = NoCall
  /\ prior = [log_post |-> <<>>, prev_action |-> <<>>]
  /\ fresh = NoTwin
  /\ steps = 0
  /\ seen = <<>>
  /\ used = [overrides |-> 0, bad |-> 0]

Init == InitWith(Instances)

\* The states offered: one for each distinct row of values the policies hold.
OfferedStates ==
  { s \in States : \A t \in States :
      t < s => \E i \in 1..cfg.N : cfg.policies[i][t] # cfg.policies[i][s] }

ValidActions == 0 .. (cfg.action_space_size - 1)
OfferedActions == (-1) .. cfg.action_space_size

\* The log-likelihoods update computes first, against the context it finds.
LogLikes(c, prev, state, user_action) ==
  CASE c.kind = "Bayesian" -> BayesLogLikes(c, state, user_action)
    [] c.kind = "CRF" -> CRFLogLikes(c, prev, state, user_action)

\* The context assigned before the likelihoods are computed.
ContextAssignedFirst(prev, user_action) == <<user_action>>

\* The context the likelihoods of update(state, user_action) are computed against.
LikelihoodContext(prev, user_action) == prev

\* Step 2 of BayesianPredictor.update and CRFPredictor.update: what line 51 / 207 stores.
Forgotten(c, lp, prev, state, user_action, args) ==
  Forget(lp, LogLikes(c, LikelihoodContext(prev, user_action), state, user_action), args.alpha)

\* The vector update returns.
Returned(c, lp, prev, state, user_action, args) ==
  IF c.kind = "MaxEnt"
    THEN MaxEntPosterior(c, lp, state, user_action, args.alpha)
    ELSE Posterior(Forgotten(c, lp, prev, state, user_action, args), args.p_switch, args.beta, c.eps)

\* self.prev_action = user_action (CRFPredictor alone)
ContextAfter(c, prev, user_action) == IF c.kind = "CRF" THEN <<user_action>> ELSE prev

\* The twin takes the same call.
TwinAfter(f, c, state, user_action, args) ==
  IF f.active
    THEN [active |-> TRUE,
          log_post |-> StoreLog(Returned(c, f.log_post, f.prev_action, state, user_action, args)),
          prev_action |-> ContextAfter(c, f.prev_action, user_action)]
    ELSE f

\* At most MaxSpecial calls pass overrides or an index out of range.
Budget(user_action, overridden) ==
  (overridden \/ user_action \notin ValidActions) =>
    (~overridden \/ user_action \in ValidActions) /\ used.overrides + used.bad < MaxSpecial

Spend(user_action, overridden) ==
  [overrides |-> used.overrides + (IF overridden THEN 1 ELSE 0),
   bad |-> used.bad + (IF user_action \in ValidActions THEN 0 ELSE 1)]

\* What a call of update records when it begins.
Begun(state, user_action, args, overridden) ==
  /\ call' = [state |-> state, user_action |-> user_action, args |-> args,
              overridden |-> overridden]
  /\ prior' = [log_post |-> log_post, prev_action |-> prev_action]
  /\ steps' = steps + 1
  /\ used' = Spend(user_action, overridden)
  /\ UNCHANGED cfg

\* probs[user_action] raises IndexError in the first log_likelihood, before
\* update has assigned anything.
Raised ==
  /\ lastOp' = "IndexError"
  /\ ret' = <<>>
  /\ UNCHANGED <<log_post, prev_action, fresh, pc, seen>>

\* One whole call update(state, user_action, **overrides) with the arguments args.
Update(state, user_action, args, overridden) ==
  /\ pc = Idle
  /\ Begun(state, user_action, args, overridden)
  /\ IF IndexOK(user_action, cfg.action_space_size)
       THEN LET post == Returned(cfg, log_post, prev_action, state, user_action, args)
            IN  /\ log_post' = StoreLog(post)
                /\ prev_action' = ContextAfter(cfg, prev_action, user_action)
                /\ ret' = post
                /\ lastOp' = "update"
                /\ fresh' = TwinAfter(fresh, cfg, state, user_action, args)
                /\ seen' = Append(seen, user_action)
                /\ UNCHANGED pc
       ELSE Raised

BayesUpdate ==
  /\ cfg.kind = "Bayesian"
  /\ steps < MaxSteps
  /\ \E state \in OfferedStates, user_action \in OfferedActions, ov \in BayesOverrides :
       /\ Budget(user_action, ov # NoOverride)
       /\ Update(state, user_action, BayesArgs(ov), ov # NoOverride)

MaxEntUpdate ==
  /\ cfg.kind = "MaxEnt"
  /\ steps < MaxSteps
  /\ \E state \in OfferedStates, user_action \in OfferedActions, ov \in MaxEntOverrides :
       /\ Budget(user_action, ov # NoOverride)
       /\ Update(state, user_action, MaxEntArgs(ov), ov # NoOverride)

CRFUpdate ==
  /\ cfg.kind = "CRF"
  /\ steps < MaxSteps
  /\ \E state \in OfferedStates, user_action \in OfferedActions :
       /\ Budget(user_action, FALSE)
       /\ Update(state, user_action, CRFArgs(cfg), FALSE)

\* get_prob subtracting the maximum in place (self.log_post -= max_logp).
GetProbInPlace(lp) == LET m == Max(lp) IN Vec(LAMBDA i : lp[i] - m, Len(lp))

\* What get_prob leaves in self.log_post: it builds new arrays and assigns none.
GetProbStored(lp) == lp

GetProb ==
  /\ ret' = GetProbValue(log_post)
  /\ log_post' = GetProbStored(log_post)
  /\ lastOp' = "get_prob"
  /\ UNCHANGED <<cfg, prev_action, pc, call, prior, fresh, steps, seen, used>>

\* get_prob between two calls of the one caller
GetProbIdle == pc = Idle /\ GetProb

\* CRFPredictor.reset
ResetLogPost(c, lp) == UniformLogPost(c.N)
ResetContextKept(prev) == prev
ResetContext(prev) == <<>>

CRFReset ==
  /\ cfg.kind = "CRF"
  /\ pc = Idle
  /\ steps < MaxSteps
  /\ lastOp = "update"
  /\ log_post' = ResetLogPost(cfg, log_post)
  /\ prev_action' = ResetContext(prev_action)
  /\ fresh' = [active |-> TRUE, log_post |-> UniformLogPost(cfg.N), prev_action |-> <<>>]
  /\ lastOp' = "reset"
  /\ ret' = <<>>
  /\ UNCHANGED <<cfg, pc, call, prior, steps, seen, used>>

Next == BayesUpdate \/ MaxEntUpdate \/ CRFUpdate \/ GetProbIdle \/ CRFReset

Spec == Init /\ [][Next]_vars

(***************************************************************************)
(* The scenario of section 8: two hypotheses, two actions, defaults.        *)
(***************************************************************************)
ScenarioInit == InitWith({Scenario})

ScenarioUpdate ==
  /\ steps < ScenarioSteps
  /\ \E user_action \in ValidActions : Update(1, user_action, BayesArgs(NoOverride), FALSE)

ScenarioNext == ScenarioUpdate \/ GetProbIdle

SpecScenario == ScenarioInit /\ [][ScenarioNext]_vars

(***************************************************************************)
(* A second caller reading get_prob while an update is in flight: update    *)
(* assigns self.log_post twice (lines 51 and 71, 207 and 227), and          *)
(* CRFPredictor.update then assigns self.prev_action (line 230).            *)
(***************************************************************************)
ConcInstances ==
  { Scenario,
    MaxEnt(<<Goal0, Goal1>>, 2, MaxEntEps),
    CRF(<<Goal0, Goal1>>, 2, CRFPairwise, CRFPSwitch, CRFBeta) }

ConcInit == InitWith(ConcInstances)

ArgsOf(c) ==
  CASE c.kind = "Bayesian" -> BayesArgs(NoOverride)
    [] c.kind = "MaxEnt" -> MaxEntArgs(NoOverride)
    [] c.kind = "CRF" -> CRFArgs(c)

\* Lines 45 to 51 (201 to 207): the likelihoods, then the first assignment.
UpdateForget ==
  /\ cfg.kind # "MaxEnt"
  /\ pc = Idle
  /\ steps < ConcSteps
  /\ \E state \in OfferedStates, user_action \in ValidActions :
       /\ Begun(state, user_action, ArgsOf(cfg), FALSE)
       /\ IF IndexOK(user_action, cfg.action_space_size)
            THEN /\ log_post' = Forgotten(cfg, log_post, prev_action, state, user_action, ArgsOf(cfg))
                 /\ pc' = [at |-> "stored", post |-> <<>>]
                 /\ UNCHANGED <<prev_action, ret, lastOp, fresh, seen>>
            ELSE Raised

\* Lines 54 to 73 (210 to 227): the posterior from the stored log-belief, the
\* second assignment, and for BayesianPredictor the return.
UpdateStore ==
  /\ pc.at = "stored"
  /\ LET post == Posterior(log_post, call.args.p_switch, call.args.beta, cfg.eps)
     IN  /\ log_post' = StoreLog(post)
         /\ IF cfg.kind = "CRF"
              THEN /\ pc' = [at |-> "posted", post |-> post]
                   /\ UNCHANGED <<ret, lastOp, seen>>
              ELSE /\ pc' = Idle
                   /\ ret' = post
                   /\ lastOp' = "update"
                   /\ seen' = Append(seen, call.user_action)
  /\ UNCHANGED <<cfg, prev_action, call, prior, fresh, steps, used>>

\* Lines 230 to 232 of CRFPredictor.update: the context, and the return.
UpdateContext ==
  /\ pc.at = "posted"
  /\ prev_action' = ContextAfter(cfg, prev_action, call.user_action)
  /\ ret' = pc.post
  /\ lastOp' = "update"
  /\ seen' = Append(seen, call.user_action)
  /\ pc' = Idle
  /\ UNCHANGED <<cfg, log_post, call, prior, fresh, steps, used>>

\* MaxEntPredictor.update assigns self.log_post once, at its end.
MaxEntWhole ==
  /\ cfg.kind = "MaxEnt"
  /\ steps < ConcSteps
  /\ \E state \in OfferedStates, user_action \in ValidActions :
       Update(state, user_action, ArgsOf(cfg), FALSE)

ConcNext == UpdateForget \/ UpdateStore \/ UpdateContext \/ MaxEntWhole \/ GetProb

SpecConc == ConcInit /\ [][ConcNext]_vars

(***************************************************************************)
(* The properties.                                                          *)
(***************************************************************************)
\* 1e-6 on the grid
SumTol == One \div 1000000

Indices == 1..cfg.N

C2_Floor ==
  (cfg.kind # "CRF" /\ lastOp \in {"update", "get_prob"}) =>
    \A i \in Indices : cfg.N * ret[i] >= cfg.eps

\* get_prob after an update that left an entry within a tenth of the floor.
C2_Witness ==
  /\ cfg.kind # "CRF" /\ lastOp = "get_prob" /\ steps > 0
  /\ \E i \in Indices : 10 * (cfg.N * ret[i] - cfg.eps) < cfg.eps

\* C3: CRFPredictor.reset leaves the belief exactly uniform and no previous
\* action, so that the next pairwise contribution is zero for every action, and
\* the updates after it give what they give a freshly constructed CRFPredictor.
C3_Reset ==
  /\ lastOp = "reset" =>
        /\ \A i \in Indices : GetProbValue(log_post)[i] = Uniform(cfg.N)
        /\ prev_action = <<>>
        /\ \A i \in Indices, s \in States, a \in ValidActions :
              CRFLogits(cfg, prev_action, s, cfg.policies[i])[a + 1]
                = unary_fn(cfg, cfg.policies[i], s, a)
  /\ fresh.active => log_post = fresh.log_post /\ prev_action = fresh.prev_action

\* Updates before the reset and after it.
C3_Witness ==
  fresh.active /\ lastOp = "update" /\ steps = 2 /\ prior.prev_action = <<>>

\* C4: an update with an action index outside [0, action_space_size) fails with
\* an error and leaves the belief and the previous-action context as they were.
C4_Claim ==
  (lastOp \in {"update", "IndexError"} /\ call.user_action \notin ValidActions) =>
    /\ lastOp = "IndexError"
    /\ log_post = prior.log_post
    /\ prev_action = prior.prev_action

\* The arguments a call without overrides runs with.
Defaults ==
  IF cfg.kind = "Bayesian"
    THEN [alpha |-> BayesAlpha, p_switch |-> BayesPSwitch, beta |-> BayesBeta]
    ELSE [alpha |-> MaxEntAlpha, p_switch |-> 0, beta |-> One]

\* C5: no call of update changes a stored attribute, and an update without
\* overrides returns what the defaults give on the belief it finds, whatever
\* overrides the calls before it passed.
C5_PerCall ==
  /\ [][cfg' = cfg]_vars
  /\ []((cfg.kind # "CRF" /\ lastOp = "update" /\ ~call.overridden) =>
          /\ call.args = Defaults
          /\ ret = Returned(cfg, prior.log_post, prior.prev_action, call.state,
                            call.user_action, Defaults))

\* An update without overrides after one with overrides.
C5_Witness ==
  /\ cfg.kind = "Bayesian" /\ lastOp = "update" /\ steps = 2
  /\ used.overrides = 1 /\ ~call.overridden

AllZero(v) == \A i \in 1..Len(v) : v[i] = 0

\* A step of get_prob: the only one that leaves "get_prob" as the last call and
\* the update in flight where it was.
GetProbStep == lastOp' = "get_prob" /\ pc' = pc /\ steps' = steps

\* C6: get_prob leaves the stored log-belief and the previous-action context
\* as they were, and with no update in flight successive calls of get_prob
\* return the same simplex.  (The witness is the other half: a get_prob during
\* an update reads a belief that is neither the one before nor the one after.)
C6_GetProb ==
  [][GetProbStep =>
       /\ log_post' = log_post
       /\ prev_action' = prev_action
       /\ (lastOp = "get_prob" /\ pc = Idle) => ret' = ret
       /\ Abs(Sum(ret') - One) <= SumTol]_vars

\* What the update in flight will have stored when it returns.
InFlightResult == StoreLog(Posterior(log_post, call.args.p_switch, call.args.beta, cfg.eps))

\* get_prob between the two assignments of an update returns a belief that is
\* neither that of the log-belief before the update nor that of the one after.
C6_Witness ==
  /\ pc.at = "stored" /\ lastOp = "get_prob"
  /\ ret # GetProbValue(prior.log_post)
  /\ ret # GetProbValue(InFlightResult)
  /\ log_post # prior.log_post /\ log_post # InFlightResult

\* C7 as stated: in the scenario, after five updates with action 0 from the
\* uniform prior, belief[0] > 0.9.
C7_Original ==
  (lastOp = "update" /\ steps = 5 /\ AllZero(seen)) => ret[1] > 9 * (One \div 10)

\* C7 amended: in the scenario, after five updates with action 0 from the
\* uniform prior, belief[0] exceeds belief[1] and lies between 0.56 and 0.57.
C7_Scenario ==
  (lastOp = "update" /\ steps = 5 /\ AllZero(seen)) =>
    /\ ret[1] > ret[2]
    /\ ret[1] > 56 * (One \div 100)
    /\ ret[1] < 57 * (One \div 100)

C7_Witness == lastOp = "update" /\ steps = 5 /\ AllZero(seen)

\* C8: CRFPredictor.update computes every likelihood against the context it
\* finds (none at the first update), and leaves the action it observed as
\* the context.
C8_Context ==
  (cfg.kind = "CRF" /\ lastOp = "update") =>
    /\ prev_action = <<call.user_action>>
    /\ steps = 1 => prior.prev_action = <<>>
    /\ ret = Posterior(Forget(prior.log_post,
                               CRFLogLikes(cfg, prior.prev_action, call.state, call.user_action),
                               cfg.alpha),
                        cfg.p_switch, cfg.beta, cfg.eps)
    /\ log_post = StoreLog(ret)

\* An update whose action differs from the one before it.
C8_Witness ==
  /\ cfg.kind = "CRF" /\ lastOp = "update" /\ used.bad = 0
  /\ prior.prev_action # <<>> /\ prior.prev_action # <<call.user_action>>

\* The L1 distance of a belief from the uniform distribution.
DistUniform(v) == Sum(Vec(LAMBDA i : Abs(v[i] - Uniform(Len(v))), Len(v)))

\* What the last update would have returned with p_switch = 0.
WithoutSwitch ==
  Posterior(Forgotten(cfg, prior.log_post, prior.prev_action, call.state, call.user_action,
                      call.args),
            0, call.args.beta, cfg.eps)

SwitchCase ==
  cfg.kind # "MaxEnt" /\ lastOp = "update" /\ used.bad = 0 /\ call.args.p_switch > 0

\* C9 as stated: an update with p_switch > 0 returns a belief strictly closer
\* to uniform than the same update with p_switch = 0.
C9_Original == SwitchCase => DistUniform(ret) < DistUniform(WithoutSwitch)

\* C9 amended: an update with p_switch > 0 returns a belief no farther from
\* uniform than the same update with p_switch = 0, and strictly closer when
\* the latter is farther than 1e-6 from uniform.
C9_Switch ==
  SwitchCase =>
    /\ DistUniform(ret) <= DistUniform(WithoutSwitch)
    /\ DistUniform(WithoutSwitch) > SumTol => DistUniform(ret) < DistUniform(WithoutSwitch)

C9_Witness == SwitchCase /\ cfg.N = 3 /\ DistUniform(WithoutSwitch) > SumTol

FlatIn(policy, s) == \A a \in ValidActions : policy[s][a + 1] = policy[s][1]

\* C10: with pairwise_weight > 0 and a hypothesis whose values are equal over
\* the actions, after an update that observed k the likelihood of k is
\* strictly above that of every other action, and with no previous action
\* all the likelihoods are equal.
C10_Persistence ==
  (cfg.kind = "CRF" /\ cfg.pairwise_weight > 0) =>
    \A i \in Indices, s \in States :
      FlatIn(cfg.policies[i], s) =>
        LET ll(a) == CRFLogLikelihood(cfg, prev_action, s, a, cfg.policies[i])
        IN  /\ prev_action = <<>> => \A a \in ValidActions : ll(a) = ll(0)
            /\ (prev_action # <<>> /\ prev_action[1] \in ValidActions) =>
                  \A j \in ValidActions \ {prev_action[1]} : ll(prev_action[1]) > ll(j)

C10_Witness ==
  /\ cfg.kind = "CRF" /\ cfg.action_space_size = 3 /\ lastOp = "update"
  /\ prev_action = <<1>> /\ FlatIn(cfg.policies[1], 1)
====
